---- MODULE Spec2Model ----
(***************************************************************************)
(* Model of DiscordBot/Cogs/Music/playlist.py: the Playlist queue and the  *)
(* PlaylistEntry download state machine, as they run on one asyncio event  *)
(* loop.  Every action is one synchronous stretch of code, from one await  *)
(* (or task start) to the next await (or return): the loop never           *)
(* interleaves anything inside such a stretch.                             *)
(*                                                                         *)
(* File names are records [parts, ext]: the name is the '-'-joined parts,  *)
(* a '.', and the extension; the tokens hold no '-' and no '.'.  All files *)
(* live in the one download folder, so a path is modelled by its basename. *)
(***************************************************************************)
EXTENDS Integers, Sequences, FiniteSets, TLC

\* ------------------------------------------------------------------ bounds
MaxEntries == 2      \* PlaylistEntry objects that can be constructed
SoloEntries == 1     \* entries constructed by their callers in SpecEntry
SoloRequests == 2    \* readiness requests those callers make in SpecEntry
SharedRequests == 3  \* readiness requests made on the entries of SpecShared
MaxFutures == 3      \* asyncio.Future objects that can be created
MaxTasks   == 3      \* _download() tasks that ensure_future can schedule
MaxCalls   == 2      \* add_entry calls that can be made
MaxImports == 1      \* import_from / async_process_youtube_playlist calls
MaxItems   == 2      \* entries of the info of a playlist url

EntryIds  == 1..MaxEntries
FutureIds == 1..MaxFutures
TaskIds   == 1..MaxTasks
CallIds   == 1..MaxCalls
ImportIds == 1..MaxImports

\* -------------------------------------------------- the resolver's answers
\* What downloader.extract_info / ytdl.prepare_filename answer for an url.
\* "ga" and "gb" are two generic urls that yield the same file name but
\* different bytes; "yt" is a named-extractor url.
Urls == {"ga", "gb", "yt"}
\* the urls the users of the queue ask for
QueueUrls == {"ga", "yt"}

PrepareFilename(u) ==
    IF u = "yt" THEN [parts |-> <<"youtube", "x">>, ext |-> "m4a"]
                ELSE [parts |-> <<"generic", "s">>, ext |-> "mp3"]

\* the bytes a download of the url writes
Content(u) == CASE u = "ga" -> "ca" [] u = "gb" -> "cb" [] OTHER -> "cy"

\* os.path.getsize of a file holding these bytes
GetSize(c) == CASE c = "ca" -> 1 [] c = "cb" -> 2 [] c = "cy" -> 3 [] OTHER -> 0

\* md5sum(filename, 8): the last 8 hex digits of the md5 of the bytes
Md5Sum(c) == CASE c = "ca" -> "ha" [] c = "cb" -> "hb" [] c = "cy" -> "hy" [] OTHER -> "h0"

\* the same name under the extension another format of the song gets
OtherExtension(f) == [parts |-> f.parts, ext |-> "webm"]

\* ------------------------------------------------------- string operations
\* f.rsplit('-', 1)[0]: everything before the last '-'; the whole string
\* (extension included) when there is no '-'
RSplitDash(f) ==
    IF Len(f.parts) > 1
    THEN [parts |-> SubSeq(f.parts, 1, Len(f.parts) - 1), ext |-> ""]
    ELSE f

\* f.rsplit('.', 1)[0]: the name without its extension
RSplitDot(f) == [parts |-> f.parts, ext |-> ""]

\* os.path.basename(expected_filename).split('-')[0]
ExtractorOf(f) ==
    IF Len(f.parts) > 1 THEN f.parts[1]
    ELSE IF f.ext = "" THEN f.parts[1] ELSE "other"

\* md5sum(unhashed, 8).join('-.').join(unhashed.rsplit('.', 1)):
\* "<name>-<hash>.<ext>"
HashedName(f, h) == [parts |-> Append(f.parts, h), ext |-> f.ext]

\* ------------------------------------------------------------- file system
\* dir is os.listdir(download_folder) in listing order, with each file's bytes
Names(d) == [i \in 1..Len(d) |-> d[i].name]
HasFile(d, n) == \E i \in 1..Len(d) : d[i].name = n
IndexOf(s, x) == CHOOSE i \in 1..Len(s) : s[i] = x /\ \A j \in 1..(i - 1) : s[j] # x
InSeq(s, x) == \E i \in 1..Len(s) : s[i] = x
RemoveFile(d, n) == SelectSeq(d, LAMBDA r : r.name # n)
FileBytes(d, n) == d[IndexOf(Names(d), n)].content
\* os.rename(a, b): b takes a's place in the listing
RenameFile(d, a, b) ==
    [i \in 1..Len(d) |-> IF d[i].name = a THEN [name |-> b, content |-> d[i].content] ELSE d[i]]
\* the download writes (or overwrites) the file
WriteFile(d, n, c) ==
    IF HasFile(d, n)
    THEN [i \in 1..Len(d) |-> IF d[i].name = n THEN [name |-> n, content |-> c] ELSE d[i]]
    ELSE Append(d, [name |-> n, content |-> c])

\* ------------------------------------------------------------------- state
VARIABLES
    entries,            \* Playlist.entries: the deque of queued entries
    url,                \* PlaylistEntry.url ("" while the object is not constructed)
    expected_filename,  \* PlaylistEntry.expected_filename
    filename,           \* PlaylistEntry.filename (NoFile is None)
    is_downloading,     \* PlaylistEntry._is_downloading
    waiting_futures,    \* PlaylistEntry._waiting_futures
    futures,            \* every asyncio.Future made by get_ready_future
    tasks,              \* every _download() task made by ensure_future
    dir,                \* the download folder: listing order and bytes
    folder,             \* os.path.exists(download_folder)
    calls,              \* add_entry coroutines in flight
    pops,               \* get_next_entry calls that removed an entry, in call order
    emitted,            \* number of 'entry-added' events emitted
    reordered,          \* shuffle() or clear() has run
    attrs,              \* PlaylistEntry.title, .duration and .meta
    imports,            \* import_from / async_process_youtube_playlist calls
    estimate,           \* the last estimate_time_until call and what it returned
    snapshot,           \* the last from_json input and to_json output
    headVia,            \* how the head of the queue came to be the head
    hist                \* per-entry history used to state the properties

vars == <<entries, url, expected_filename, filename, is_downloading, waiting_futures,
          futures, tasks, dir, folder, calls, pops, emitted, reordered, attrs, imports,
          estimate, snapshot, headVia, hist>>

NoFile == [parts |-> <<>>, ext |-> ""]

Constructed(e) == url[e] # ""

\* PlaylistEntry.is_downloaded
IsDownloaded(e) == IF is_downloading[e] THEN FALSE ELSE filename[e] # NoFile

\* --------------------------------------------------------------- futures
NoFuture == [state |-> "unused", owner |-> 0, res |-> 0, err |-> ""]
\* a task: its position pc in _download, its locals hash, idx and res, and
\* what held when get_ready_future scheduled it: the future made with it
\* (fut), whether a download was in flight (stale), and how many runs of the
\* entry had ended (epoch); worked: the run got to its cache check (line 305)
\* probe is what the CONTENT-LENGTH probe answered (NoLength when it failed)
NoTask   == [pc |-> "unused", entry |-> 0, hash |-> FALSE, idx |-> 0, res |-> "",
             probe |-> 0, fut |-> 0, stale |-> FALSE, epoch |-> 0, worked |-> FALSE]

Unused(fs) == {f \in DOMAIN fs : fs[f].state = "unused"}
UnusedTasks(ts) == {t \in DOMAIN ts : ts[t].pc = "unused"}
Lowest(S) == CHOOSE x \in S : \A y \in S : x <= y

\* the objects one get_ready_future(e) call needs
CanGetReady(h, e) ==
    /\ Unused(h.futures) # {}
    /\ IsDownloaded(e) \/ UnusedTasks(h.tasks) # {}

\* get_ready_future with ensure_future and append moved out of the else branch
GetReadyFutureAlwaysSchedules(h, e) ==
    LET f == Lowest(Unused(h.futures))
        t == Lowest(UnusedTasks(h.tasks))
    IN  [futures |-> [h.futures EXCEPT ![f] =
                         [state |-> IF IsDownloaded(e) THEN "result" ELSE "pending",
                          owner |-> e, res |-> IF IsDownloaded(e) THEN e ELSE 0, err |-> ""]],
         tasks   |-> IF UnusedTasks(h.tasks) = {} THEN h.tasks
                     ELSE [h.tasks EXCEPT ![t] =
                             [NoTask EXCEPT !.pc = "scheduled", !.entry = e, !.fut = f,
                                            !.stale = is_downloading[e],
                                            !.epoch = hist[e].settled]],
         waiting |-> [h.waiting EXCEPT ![e] = Append(@, f)]]

\* PlaylistEntry.get_ready_future on the heap h = [futures, tasks, waiting];
\* the future it returns is Lowest(Unused(h.futures))
GetReadyFuture(h, e) ==
    LET f == Lowest(Unused(h.futures)) IN
    IF IsDownloaded(e)
    THEN [h EXCEPT !.futures[f] =
             [state |-> "result", owner |-> e, res |-> e, err |-> ""]]
    ELSE LET t == Lowest(UnusedTasks(h.tasks)) IN
         [futures |-> [h.futures EXCEPT ![f] =
                          [state |-> "pending", owner |-> e, res |-> 0, err |-> ""]],
          tasks   |-> [h.tasks EXCEPT ![t] =
                          [NoTask EXCEPT !.pc = "scheduled", !.entry = e, !.fut = f,
                                         !.stale = is_downloading[e],
                                         !.epoch = hist[e].settled]],
          waiting |-> [h.waiting EXCEPT ![e] = Append(@, f)]]

Heap == [futures |-> futures, tasks |-> tasks, waiting |-> waiting_futures]

\* future.set_result(entry) / future.set_exception(e): a future that is
\* already done raises InvalidStateError, which _for_each_future absorbs
SetOutcome(fu, e, err) ==
    IF fu.state = "pending"
    THEN [fu EXCEPT !.state = IF err = "" THEN "result" ELSE "exception",
                    !.res = IF err = "" THEN e ELSE 0, !.err = err]
    ELSE fu

\* _for_each_future over futures[:1]: only the first waiter is called back
ForEachFutureFirstOnly(fs, ws, e, err) ==
    [f \in DOMAIN fs |->
        IF Len(ws) > 0 /\ ws[1] = f /\ fs[f].state # "cancelled"
        THEN SetOutcome(fs[f], e, err) ELSE fs[f]]

\* _for_each_future with break in place of continue: it stops at the first
\* cancelled waiter
ForEachFutureStopsAtCancelled(fs, ws, e, err) ==
    [f \in DOMAIN fs |->
        IF /\ InSeq(ws, f)
           /\ \A i \in 1..IndexOf(ws, f) : fs[ws[i]].state # "cancelled"
        THEN SetOutcome(fs[f], e, err) ELSE fs[f]]

\* PlaylistEntry._for_each_future over the list ws: cancelled ones are skipped
ForEachFuture(fs, ws, e, err) ==
    [f \in DOMAIN fs |->
        IF InSeq(ws, f) /\ fs[f].state # "cancelled"
        THEN SetOutcome(fs[f], e, err) ELSE fs[f]]

\* ------------------------------------------------------------------ queue
\* Playlist.peek (0 is None)
Peek(q) == IF Len(q) > 0 THEN q[1] ELSE 0

\* -------------------------------------------------- PlaylistEntry._download
\* the flag cleared at the end of the try block instead of in a finally clause
FlagClearedOnSuccessOnly(isd, e, err) == IF err = "" THEN [isd EXCEPT ![e] = FALSE] ELSE isd

\* the finally clause of lines 371-372, after a run that ended with err
FlagAfterRun(isd, e, err) == [isd EXCEPT ![e] = FALSE]

\* The end of a run of task t on entry e (lines 364-372): the waiters get the
\* entry (err = "") or the exception, and the finally clause clears the flag.
\* fn is self.filename as the run leaves it, h0 the history before the end.
Settle(t, e, err, fn, h0) ==
    /\ futures' = ForEachFuture(futures, waiting_futures[e], e, err)
    /\ waiting_futures' = [waiting_futures EXCEPT ![e] = <<>>]
    /\ is_downloading' = FlagAfterRun(is_downloading, e, err)
    /\ filename' = [filename EXCEPT ![e] = fn]
    /\ tasks' = [tasks EXCEPT ![t].pc = "done", ![t].hash = FALSE, ![t].idx = 0,
                              ![t].res = "", ![t].probe = 0,
                              ![t].worked = (err \notin {"makedirs", "basename"})]
    /\ hist' = [h0 EXCEPT ![e].settled = @ + 1,
                          ![e].outcome = IF err = "" THEN "ok" ELSE "failed"]

\* The run goes on to an await: the flag stays set, the task waits at pc
Suspend(t, e, pc, hash, idx, h0) ==
    /\ tasks' = [tasks EXCEPT ![t].pc = pc, ![t].hash = hash, ![t].idx = idx,
                              ![t].probe = 0, ![t].worked = TRUE]
    /\ is_downloading' = [is_downloading EXCEPT ![e] = TRUE]
    /\ hist' = h0
    /\ UNCHANGED <<futures, waiting_futures, filename>>

\* the task has passed the in-progress guard: it is, or was, a download run
Passed(t) == tasks[t].pc \in {"get_header", "got_header", "extract_info", "extracted",
                              "done"}

\* no guard at all
GuardNeverBlocks(e) == FALSE

\* the in-progress guard of line 295
GuardBlocks(e) == is_downloading[e]

\* the probe that raised, and what lines 314-317 make of an answer
NoLength == -1
RSize(a) == IF a = NoLength THEN 0 ELSE a

\* lines 308-336 up to the first await: the generic extractor
StartGeneric(t, e, h0) ==
    LET flistdir == [i \in 1..Len(dir) |-> RSplitDash(dir[i].name)]
        noex == RSplitDot(expected_filename[e])
    IN  IF InSeq(flistdir, noex)
        THEN Suspend(t, e, "get_header", FALSE, IndexOf(flistdir, noex), h0)
        ELSE Suspend(t, e, "extract_info", TRUE, 0, h0)

\* the first file of the expected base name, whatever its extension
StartNamedByBaseOnly(t, e, h0) ==
    LET ldir == Names(dir)
        flistdir == [i \in 1..Len(dir) |-> RSplitDot(dir[i].name)]
        noex == RSplitDot(expected_filename[e])
    IN  IF InSeq(flistdir, noex)
        THEN Settle(t, e, "", ldir[IndexOf(flistdir, noex)], h0)
        ELSE Suspend(t, e, "extract_info", FALSE, 0, h0)

\* lines 338-362: every other extractor
StartNamed(t, e, h0) ==
    LET ldir == Names(dir)
        flistdir == [i \in 1..Len(dir) |-> RSplitDot(dir[i].name)]
        base == expected_filename[e]
        noex == RSplitDot(base)
    IN  IF InSeq(ldir, base)
        THEN Settle(t, e, "", base, h0)
        ELSE IF InSeq(flistdir, noex)
        THEN Settle(t, e, "", ldir[IndexOf(flistdir, noex)], h0)
        ELSE Suspend(t, e, "extract_info", FALSE, 0, h0)

\* A scheduled _download() task gets its first turn (lines 294-362)
DownloadStart(t) ==
    /\ tasks[t].pc = "scheduled"
    /\ LET e == tasks[t].entry
           h0 == hist
       IN  IF GuardBlocks(e)
           THEN /\ tasks' = [tasks EXCEPT ![t].pc = "returned"]
                /\ UNCHANGED <<futures, waiting_futures, is_downloading, filename,
                               hist, folder>>
           ELSE \/ /\ ~folder              \* os.makedirs raises
                   /\ Settle(t, e, "makedirs", filename[e], h0)
                   /\ UNCHANGED folder
                \/ /\ folder' = TRUE
                   /\ IF expected_filename[e] = NoFile   \* os.path.basename(None) raises
                      THEN Settle(t, e, "basename", filename[e], h0)
                      ELSE IF ExtractorOf(expected_filename[e]) = "generic"
                      THEN StartGeneric(t, e, h0)
                      ELSE StartNamed(t, e, h0)
    /\ UNCHANGED <<entries, url, expected_filename, dir, calls, pops, emitted, reordered,
                   attrs, imports, estimate, snapshot, headVia>>

\* the HEAD request of get_header(..., 'CONTENT-LENGTH') (line 315) answers the
\* length of the url's bytes, or fails: a timeout, an error, no such header or
\* one that int() does not take
DownloadHeader(t) ==
    /\ tasks[t].pc = "get_header"
    /\ \E a \in {GetSize(Content(url[tasks[t].entry])), NoLength} :
         tasks' = [tasks EXCEPT ![t].pc = "got_header", ![t].probe = a]
    /\ UNCHANGED <<entries, url, expected_filename, filename, is_downloading,
                   waiting_futures, futures, dir, folder, calls, pops, emitted,
                   reordered, hist, attrs, imports, estimate, snapshot, headVia>>

\* _download resumes with the answer (lines 314-332)
DownloadProbed(t) ==
    /\ tasks[t].pc = "got_header"
    /\ LET e == tasks[t].entry
           i == tasks[t].idx
           rsize == RSize(tasks[t].probe)
       IN  IF i > Len(dir)                \* os.listdir(...)[index]: IndexError
           THEN Settle(t, e, "index", filename[e], hist)
           ELSE IF GetSize(dir[i].content) # rsize
           THEN Suspend(t, e, "extract_info", TRUE, 0, hist)
           ELSE Settle(t, e, "", dir[i].name, hist)
    /\ UNCHANGED <<entries, url, expected_filename, dir, folder, calls, pops, emitted, reordered,
                   attrs, imports, estimate, snapshot, headVia>>

\* ------------------------------------------ PlaylistEntry._really_download
\* downloader.extract_info(download=True) ends in its executor thread: it
\* raised, returned None, or wrote the file and returned its info (line 378)
ExtractInfoDone(t) ==
    /\ tasks[t].pc = "extract_info"
    /\ LET e == tasks[t].entry IN
       \E r \in {"raise", "none", "ok"} :
          /\ tasks' = [tasks EXCEPT ![t].pc = "extracted", ![t].res = r]
          /\ IF r = "ok"
             THEN /\ dir' = WriteFile(dir, PrepareFilename(url[e]), Content(url[e]))
                  /\ folder' = TRUE
             ELSE UNCHANGED <<dir, folder>>
    /\ UNCHANGED <<entries, url, expected_filename, filename, is_downloading,
                   waiting_futures, futures, calls, pops, emitted, reordered, hist,
                   attrs, imports, estimate, snapshot, headVia>>

\* The task resumes after the await of line 378 and runs lines 379-399 and
\* 364-372.  io names the file-system call that fails, if any.
ReallyDownloadResume(t) ==
    /\ tasks[t].pc = "extracted"
    /\ LET e == tasks[t].entry
           unhashed == PrepareFilename(url[e])
       IN  CASE tasks[t].res = "raise" ->
                  Settle(t, e, "extract", filename[e], hist) /\ UNCHANGED dir
             [] tasks[t].res = "none" ->
                  Settle(t, e, "none", filename[e], hist) /\ UNCHANGED dir
             [] OTHER ->
                  \E io \in {"ok", "md5", "move"} :
                    IF ~tasks[t].hash
                    THEN io = "ok" /\ Settle(t, e, "", unhashed, hist) /\ UNCHANGED dir
                    ELSE IF ~HasFile(dir, unhashed)    \* md5sum: FileNotFoundError
                    THEN io = "ok" /\ Settle(t, e, "nofile", unhashed, hist) /\ UNCHANGED dir
                    ELSE IF io = "md5"
                    THEN Settle(t, e, "md5", unhashed, hist) /\ UNCHANGED dir
                    ELSE LET hashed == HashedName(unhashed, Md5Sum(FileBytes(dir, unhashed)))
                         IN  IF HasFile(dir, hashed)
                             THEN IF io = "move"      \* os.unlink raises
                                  THEN Settle(t, e, "unlink", hashed, hist) /\ UNCHANGED dir
                                  ELSE /\ Settle(t, e, "", hashed, hist)
                                       /\ dir' = RemoveFile(dir, unhashed)
                             ELSE IF io = "move"      \* os.rename raises
                                  THEN Settle(t, e, "rename", hashed, hist) /\ UNCHANGED dir
                                  ELSE /\ Settle(t, e, "", hashed, hist)
                                       /\ dir' = RenameFile(dir, unhashed, hashed)
    /\ UNCHANGED <<entries, url, expected_filename, folder, calls, pops, emitted, reordered,
                   attrs, imports, estimate, snapshot, headVia>>

\* ---------------------------------------------------------------- Playlist
NoInfo == [type |-> "", webpage_url |-> "", url |-> ""]
NoType == [major |-> "", sub |-> ""]
NoItem == [id |-> "", url |-> "", webpage_url |-> ""]
NoImport == [pc |-> "unused", kind |-> "", answer |-> "", extractor |-> "", items |-> <<>>,
             k |-> 0, child |-> 0, good |-> <<>>, bad |-> 0, position |-> 0, placed |-> 0]
NoCall == [pc |-> "unused", url |-> "", entry |-> 0, pos |-> 0, err |-> "", msg |-> "",
           alt |-> "", info |-> NoInfo, ct |-> NoType]
NoHist == [settled |-> 0, outcome |-> "", atHead |-> FALSE, trig |-> FALSE]

\* what extract_info(download=False) may answer: an exception, None, a playlist
\* with or without 'webpage_url' and 'url', or the info of one song
InfoAnswers ==
    {[type |-> "raise", webpage_url |-> "", url |-> ""],
     [type |-> "none", webpage_url |-> "", url |-> ""],
     [type |-> "video", webpage_url |-> "", url |-> ""]}
    \cup {[type |-> "playlist", webpage_url |-> w, url |-> u] :
              w \in {"", "pw"}, u \in {"", "pu"}}

\* the CONTENT-TYPE values get_header may answer, as major/sub; NoType is a
\* response without the header (None)
ContentTypes == {[major |-> "audio", sub |-> "mpeg"],
                 [major |-> "text", sub |-> "html"],
                 [major |-> "application", sub |-> "ogg"],
                 [major |-> "application", sub |-> "pdf"],
                 [major |-> "image", sub |-> "png"],
                 NoType}

\* get_header raises (aiohttp.Timeout, a connection error)
ProbeFailed == [major |-> "raise", sub |-> ""]
ProbeAnswers == ContentTypes \cup {ProbeFailed}

\* lines 62-64: any exception of the probe leaves content_type None
ContentType(a) == IF a = ProbeFailed THEN NoType ELSE a

\* every application/* and image/* type is turned away
RejectedWithoutOggTest(ct) == ct.major \in {"application", "image"}

\* lines 66-69: the content type that makes add_entry raise
Rejected(ct) == ct # NoType /\ ct.major \in {"application", "image"} /\ ct.sub # "ogg"

\* the url field alone
AltUrlFromUrl(info) == info.url

\* line 53: info.get('webpage_url', None) or info.get('url', None)
AltUrl(info) == IF info.webpage_url # "" THEN info.webpage_url ELSE info.url

\* info['extractor'] of the url
InfoExtractor(u) == ExtractorOf(PrepareFilename(u))

\* info.get('title', 'Untitled'), info.get('duration', 0) or 0, and **meta
Duration(u) == CASE u = "ga" -> 3 [] u = "yt" -> 5 [] OTHER -> 0
\* a meta value is an object with a class, an id and a name; a str has no id
NoObject == [type |-> "", id |-> "", name |-> ""]
NoMeta == [channel |-> NoObject]
InfoAttrs(u) == [title |-> u, duration |-> Duration(u), meta |-> NoMeta]
NoAttrs == [title |-> "", duration |-> 0, meta |-> NoMeta]

\* lines 137-138: base_url + 'watch?v=%s' % entry_data['id']
SongUrl(id) == CASE id = "a" -> "ga" [] id = "y" -> "yt" [] OTHER -> ""

\* the first index from k on whose entry_data is not empty (line 136)
RECURSIVE NextSong(_, _)
NextSong(items, k) ==
    IF k > Len(items) \/ items[k] # NoItem THEN k ELSE NextSong(items, k + 1)

\* The loop of async_process_youtube_playlist from item k0 to its next await or
\* its return (lines 135-159): empty items are counted, the next song's add_entry
\* is called and runs to its own await of line 43.
Advance(cs, im, k0) ==
    LET j == NextSong(im.items, k0)
        c == Lowest({x \in CallIds : cs[x].pc = "unused"})
    IN  IF j > Len(im.items)
        THEN [calls |-> cs,
              imp |-> [im EXCEPT !.pc = "returned", !.k = 0, !.child = 0, !.items = <<>>,
                                 !.bad = @ + (j - k0)]]
        ELSE [calls |-> [cs EXCEPT ![c] = [NoCall EXCEPT !.pc = "extract_info",
                                                        !.url = SongUrl(im.items[j].id)]],
              imp |-> [im EXCEPT !.pc = "add_entry", !.k = j, !.child = c,
                                 !.bad = @ + (j - k0)]]

\* add_entry call c has ended (cs): the import that awaits it at line 141 takes
\* the entry or counts the exception (lines 142-148) and goes on with its loop
Continue(cs, is, c) ==
    IF \E i \in ImportIds : is[i].pc = "add_entry" /\ is[i].child = c
    THEN LET i == CHOOSE x \in ImportIds : is[x].pc = "add_entry" /\ is[x].child = c
             im == [is[i] EXCEPT !.good = IF cs[c].pc = "returned"
                                           THEN Append(@, cs[c].entry) ELSE @,
                                 !.bad = IF cs[c].pc = "returned" THEN @ ELSE @ + 1]
             a == Advance([cs EXCEPT ![c] = NoCall], im, is[i].k + 1)
         IN  [calls |-> a.calls, imports |-> [is EXCEPT ![i] = a.imp]]
    ELSE [calls |-> cs, imports |-> is]

\* _add_entry that never asks
TriggersNever(q, e) == FALSE

\* _add_entry without the peek test
TriggersAlways(q, e) == TRUE

\* self.entries.appendleft(entry)
AppendLeftEntry(q, e) == <<e>> \o q

\* line 203: Playlist._add_entry asks for the entry's readiness when it is the head
TriggersDownload(q, e) == Peek(q) = e

\* self.entries.append(entry)
AppendEntry(q, e) == Append(q, e)

\* lines 75-84 and Playlist._add_entry: call c constructs entry e and queues it
Accept(c, e) ==
    LET q == AppendEntry(entries, e)
        trig == TriggersDownload(q, e)
        h == IF trig THEN GetReadyFuture(Heap, e) ELSE Heap
    IN  /\ trig => CanGetReady(Heap, e)
        /\ url' = [url EXCEPT ![e] = calls[c].url]
        /\ expected_filename' = [expected_filename EXCEPT ![e] = PrepareFilename(calls[c].url)]
        /\ entries' = q
        /\ emitted' = emitted + 1
        /\ futures' = h.futures
        /\ tasks' = h.tasks
        /\ waiting_futures' = h.waiting
        /\ hist' = [hist EXCEPT ![e].atHead = (Len(entries) = 0), ![e].trig = (h # Heap)]
        /\ LET r == Continue([calls EXCEPT ![c] = [NoCall EXCEPT !.pc = "returned",
                                                       !.entry = e, !.pos = Len(q)]],
                             imports, c)
           IN  calls' = r.calls /\ imports' = r.imports
        /\ attrs' = [attrs EXCEPT ![e] = InfoAttrs(calls[c].url)]
        /\ headVia' = IF Len(entries) = 0 THEN "append" ELSE headVia
        /\ UNCHANGED <<filename, is_downloading, dir, folder, pops, reordered,
                       estimate, snapshot>>

\* call c ends with exception err, its message msg and, for a playlist, alt
Raise(c, err, msg, alt) ==
    /\ LET r == Continue([calls EXCEPT ![c] = [NoCall EXCEPT !.pc = "raised", !.err = err,
                                                          !.msg = msg, !.alt = alt]],
                         imports, c)
       IN  calls' = r.calls /\ imports' = r.imports
    /\ UNCHANGED <<entries, url, expected_filename, filename, is_downloading,
                   waiting_futures, futures, tasks, dir, folder, pops, emitted,
                   reordered, hist, attrs, estimate, snapshot, headVia>>

NewEntry == Lowest({e \in EntryIds : ~Constructed(e)})

\* add_entry(song_url) is called and suspends at line 43
AddEntryCall(u) ==
    /\ \E c \in CallIds : calls[c].pc = "unused"
    /\ LET c == Lowest({x \in CallIds : calls[x].pc = "unused"}) IN
       calls' = [calls EXCEPT ![c].pc = "extract_info", ![c].url = u]
    /\ UNCHANGED <<entries, url, expected_filename, filename, is_downloading,
                   waiting_futures, futures, tasks, dir, folder, pops, emitted,
                   reordered, hist,
                   attrs, imports, estimate, snapshot, headVia>>

\* the executor's extract_info(download=False) of line 43 answers
AddEntryInfo(c) ==
    /\ calls[c].pc = "extract_info"
    /\ \E info \in InfoAnswers :
         calls' = [calls EXCEPT ![c].pc = "got_info", ![c].info = info]
    /\ UNCHANGED <<entries, url, expected_filename, filename, is_downloading,
                   waiting_futures, futures, tasks, dir, folder, pops, emitted,
                   reordered, hist, attrs, imports, estimate, snapshot, headVia>>

\* add_entry resumes with the answer (lines 44-60)
AddEntryChecked(c) ==
    /\ calls[c].pc = "got_info"
    /\ LET info == calls[c].info IN
         IF info.type = "raise"
         THEN Raise(c, "ExtractionError", "Could not extract information", "")
         ELSE IF info.type = "none"
         THEN Raise(c, "ExtractionError", "Cound not extract information", "")
         ELSE IF info.type = "playlist"
         THEN Raise(c, "WrongEntryTypeError", "This is a playlist.", AltUrl(info))
         ELSE IF InfoExtractor(calls[c].url) \in {"generic", "Dropbox"}
         THEN /\ calls' = [calls EXCEPT ![c].pc = "get_header", ![c].info = NoInfo]
              /\ UNCHANGED <<entries, url, expected_filename, filename, is_downloading,
                              waiting_futures, futures, tasks, dir, folder, pops, emitted,
                              reordered, hist, attrs, imports, estimate, snapshot, headVia>>
         ELSE /\ \E e \in EntryIds : ~Constructed(e)
              /\ Accept(c, NewEntry)

\* the HEAD request of get_header (line 60) answers or fails
AddEntryHeader(c) ==
    /\ calls[c].pc = "get_header"
    /\ \E a \in ProbeAnswers :
         calls' = [calls EXCEPT ![c].pc = "got_header", ![c].ct = a]
    /\ UNCHANGED <<entries, url, expected_filename, filename, is_downloading,
                   waiting_futures, futures, tasks, dir, folder, pops, emitted,
                   reordered, hist, attrs, imports, estimate, snapshot, headVia>>

\* add_entry resumes with the content type (lines 61-84)
AddEntryProbed(c) ==
    /\ calls[c].pc = "got_header"
    /\ LET content_type == ContentType(calls[c].ct) IN
         IF Rejected(content_type)
         THEN Raise(c, "ExtractionError", "Invalid content type", "")
         ELSE /\ \E e \in EntryIds : ~Constructed(e)
              /\ Accept(c, NewEntry)

\* self.entries.pop(): the last entry goes
PopRight(q) == SubSeq(q, 1, Len(q) - 1)

\* self.entries.popleft()
PopLeft(q) == Tail(q)

\* the new head is asked for whatever the flag says
PrefetchesAlways(pre, next) == next # 0

\* lines 212-215: get_next_entry asks for the new head's readiness
Prefetches(pre, next) == pre /\ next # 0

\* Playlist.get_next_entry(predownload_next) up to its await (lines 206-217)
GetNextEntry(pre) ==
    IF Len(entries) = 0
    THEN UNCHANGED vars
    ELSE LET e == entries[1]
             q == PopLeft(entries)
             next == Peek(q)
             pf == Prefetches(pre, next)
             h1 == IF pf THEN GetReadyFuture(Heap, next) ELSE Heap
             h2 == GetReadyFuture(h1, e)
         IN  /\ pf => CanGetReady(Heap, next)
             /\ CanGetReady(h1, e)
             /\ entries' = q
             /\ futures' = h2.futures
             /\ tasks' = h2.tasks
             /\ waiting_futures' = h2.waiting
             /\ pops' = Append(pops, [entry |-> e, fut |-> Lowest(Unused(h1.futures)),
                                      pre |-> pre])
             /\ headVia' = IF next = 0 THEN "" ELSE IF pf THEN "prefetch" ELSE "pop"
             /\ UNCHANGED <<url, expected_filename, filename, is_downloading, dir,
                            folder, calls, emitted, reordered, hist, attrs, imports,
                            estimate, snapshot>>

\* Playlist.shuffle: random.shuffle leaves any permutation
Shuffle ==
    /\ Len(entries) > 1
    /\ \E p \in [1..Len(entries) -> 1..Len(entries)] :
         /\ \A i, j \in 1..Len(entries) : i # j => p[i] # p[j]
         /\ entries' = [i \in 1..Len(entries) |-> entries[p[i]]]
    /\ reordered' = TRUE
    /\ headVia' = IF entries'[1] = entries[1] THEN headVia ELSE "shuffle"
    /\ UNCHANGED <<url, expected_filename, filename, is_downloading, waiting_futures,
                   futures, tasks, dir, folder, calls, pops, emitted, hist, attrs,
                   imports, estimate, snapshot>>

\* Playlist.clear
Clear ==
    /\ Len(entries) > 0
    /\ entries' = <<>>
    /\ reordered' = TRUE
    /\ headVia' = ""
    /\ UNCHANGED <<url, expected_filename, filename, is_downloading, waiting_futures,
                   futures, tasks, dir, folder, calls, pops, emitted, hist, attrs,
                   imports, estimate, snapshot>>

\* some other caller asks the entry for its readiness
RequestReady(e) ==
    /\ Constructed(e)
    /\ Cardinality(FutureIds \ Unused(futures)) < SoloRequests
    /\ CanGetReady(Heap, e)
    /\ LET h == GetReadyFuture(Heap, e) IN
         /\ futures' = h.futures
         /\ tasks' = h.tasks
         /\ waiting_futures' = h.waiting
    /\ UNCHANGED <<entries, url, expected_filename, filename, is_downloading, dir,
                   folder, calls, pops, emitted, reordered, hist,
                   attrs, imports, estimate, snapshot, headVia>>

\* the holder of a pending future cancels it (asyncio.Future.cancel)
CancelFuture(f) ==
    /\ futures[f].state = "pending"
    /\ futures' = [futures EXCEPT ![f].state = "cancelled"]
    /\ UNCHANGED <<entries, url, expected_filename, filename, is_downloading,
                   waiting_futures, tasks, dir, folder, calls, pops, emitted,
                   reordered, hist,
                   attrs, imports, estimate, snapshot, headVia>>

\* ---------------------------------------------------------------- imports
\* the sequences of at most n members of S
SeqsUpTo(S, n) == UNION {[1..m -> S] : m \in 0..n}

\* info['entries'] of a playlist url: None, or a dict with 'url', 'webpage_url' or
\* both (import_from), or with an 'id' (async_process_youtube_playlist)
FromItems == {NoItem,
              [id |-> "", url |-> "ga", webpage_url |-> ""],
              [id |-> "", url |-> "", webpage_url |-> "yt"],
              [id |-> "", url |-> "ga", webpage_url |-> "yt"]}
StreamItems == {NoItem,
                [id |-> "a", url |-> "", webpage_url |-> ""],
                [id |-> "y", url |-> "", webpage_url |-> ""]}
Extractors == {"generic", "youtube:playlist"}

\* lines 97-100
UrlField(extractor) == IF extractor = "generic" THEN "url" ELSE "webpage_url"

\* lines 105-121: entry_data is empty, or entry_data[url_field] raises KeyError
BadItem(d, field) == d = NoItem \/ d[field] = ""

\* the loop stops at the first bad item
RECURSIVE ImportLoopStopsAtBad(_, _, _)
ImportLoopStopsAtBad(st, items, field) ==
    IF items = <<>> \/ BadItem(Head(items), field) THEN st
    ELSE LET e == Lowest({x \in EntryIds : st.url[x] = ""})
             u == Head(items)[field]
             q == AppendEntry(st.entries, e)
         IN  ImportLoopStopsAtBad([st EXCEPT !.entries = q, !.url[e] = u,
                                             !.good = Append(@, e)], Tail(items), field)

\* The loop of import_from (lines 104-121) over the playlist state st: a bad item
\* is counted, any other is constructed, queued by _add_entry and kept.
RECURSIVE ImportLoop(_, _, _)
ImportLoop(st, items, field) ==
    IF items = <<>> THEN st
    ELSE IF BadItem(Head(items), field)
    THEN ImportLoop([st EXCEPT !.bad = @ + 1], Tail(items), field)
    ELSE LET e == Lowest({x \in EntryIds : st.url[x] = ""})
             u == Head(items)[field]
             q == AppendEntry(st.entries, e)
             trig == TriggersDownload(q, e)
             h == IF trig THEN GetReadyFuture(st.heap, e) ELSE st.heap
         IN  ImportLoop([st EXCEPT !.entries = q,
                                   !.url[e] = u,
                                   !.expected_filename[e] = PrepareFilename(u),
                                   !.attrs[e] = InfoAttrs(u),
                                   !.emitted = @ + 1,
                                   !.heap = h,
                                   !.hist[e].atHead = (Len(st.entries) = 0),
                                   !.hist[e].trig = trig,
                                   !.headVia = IF Len(st.entries) = 0 THEN "append" ELSE @,
                                   !.good = Append(@, e)],
                        Tail(items), field)

\* the playlist as the loop finds it
LoopState == [entries |-> entries, url |-> url, expected_filename |-> expected_filename,
              attrs |-> attrs, emitted |-> emitted, heap |-> Heap, hist |-> hist,
              headVia |-> headVia, good |-> <<>>, bad |-> 0]

GoodItems(items, field) == SelectSeq(items, LAMBDA d : ~BadItem(d, field))

\* import_from(playlist_url) or async_process_youtube_playlist(playlist_url) is
\* called and suspends in safe_extract_info (lines 87-90, 130)
ImportCall(kind) ==
    /\ \E i \in ImportIds : imports[i].pc = "unused"
    /\ LET i == Lowest({x \in ImportIds : imports[x].pc = "unused"}) IN
       imports' = [imports EXCEPT ![i] =
                      [NoImport EXCEPT !.pc = "extract_info", !.kind = kind,
                                       !.position = IF kind = "from" THEN Len(entries) + 1
                                                    ELSE 0]]
    /\ UNCHANGED <<entries, url, expected_filename, filename, is_downloading,
                   waiting_futures, futures, tasks, dir, folder, calls, pops, emitted,
                   reordered, hist, attrs, estimate, snapshot, headVia>>

\* the executor's safe_extract_info answers
ImportInfo(i) ==
    /\ imports[i].pc = "extract_info"
    /\ \/ \E a \in {"raise", "none"} :
            imports' = [imports EXCEPT ![i].pc = "got_info", ![i].answer = a]
       \/ \E x \in Extractors, items \in SeqsUpTo(FromItems, MaxItems) :
            /\ imports[i].kind = "from"
            /\ imports' = [imports EXCEPT ![i].pc = "got_info", ![i].answer = "ok",
                                          ![i].extractor = x, ![i].items = items]
       \/ \E items \in SeqsUpTo(StreamItems, MaxItems) :
            /\ imports[i].kind = "stream"
            /\ imports' = [imports EXCEPT ![i].pc = "got_info", ![i].answer = "ok",
                                          ![i].items = items]
    /\ UNCHANGED <<entries, url, expected_filename, filename, is_downloading,
                   waiting_futures, futures, tasks, dir, folder, calls, pops, emitted,
                   reordered, hist, attrs, estimate, snapshot, headVia>>

\* import_from resumes with the info and runs to its return (lines 91-126)
ImportFromResume(i) ==
    /\ imports[i].pc = "got_info"
    /\ imports[i].kind = "from"
    /\ IF imports[i].answer # "ok"
       THEN /\ imports' = [imports EXCEPT ![i] = [NoImport EXCEPT !.pc = "raised",
                                                                 !.kind = "from"]]
            /\ UNCHANGED <<entries, url, expected_filename, attrs, emitted, futures, tasks,
                           waiting_futures, hist, headVia>>
       ELSE LET field == UrlField(imports[i].extractor)
                items == imports[i].items
                st == ImportLoop(LoopState, items, field)
            IN  /\ Cardinality({x \in EntryIds : ~Constructed(x)}) >= Len(GoodItems(items, field))
                /\ (Len(entries) = 0 /\ Len(GoodItems(items, field)) > 0)
                       => CanGetReady(Heap, NewEntry)
                /\ entries' = st.entries
                /\ url' = st.url
                /\ expected_filename' = st.expected_filename
                /\ attrs' = st.attrs
                /\ emitted' = st.emitted
                /\ futures' = st.heap.futures
                /\ tasks' = st.heap.tasks
                /\ waiting_futures' = st.heap.waiting
                /\ hist' = st.hist
                /\ headVia' = st.headVia
                /\ imports' = [imports EXCEPT ![i] =
                       [NoImport EXCEPT !.pc = "returned", !.kind = "from",
                                        !.good = st.good, !.bad = st.bad,
                                        !.position = imports[i].position,
                                        !.placed = IF st.good = <<>> THEN 0
                                                   ELSE Len(entries) + 1]]
    /\ UNCHANGED <<filename, is_downloading, dir, folder, calls, pops, reordered,
                   estimate, snapshot>>

\* async_process_youtube_playlist resumes with the info and runs to its first
\* await of add_entry, or to its return (lines 131-141)
StreamResume(i) ==
    /\ imports[i].pc = "got_info"
    /\ imports[i].kind = "stream"
    /\ IF imports[i].answer # "ok"
       THEN /\ imports' = [imports EXCEPT ![i] = [NoImport EXCEPT !.pc = "raised",
                                                                 !.kind = "stream"]]
            /\ UNCHANGED calls
       ELSE /\ NextSong(imports[i].items, 1) <= Len(imports[i].items)
                   => \E c \in CallIds : calls[c].pc = "unused"
            /\ LET a == Advance(calls, imports[i], 1) IN
                  /\ calls' = a.calls
                  /\ imports' = [imports EXCEPT ![i] = a.imp]
    /\ UNCHANGED <<entries, url, expected_filename, filename, is_downloading,
                   waiting_futures, futures, tasks, dir, folder, pops, emitted,
                   reordered, hist, attrs, estimate, snapshot, headVia>>

\* --------------------------------------------------- estimate_time_until
\* the player argument: is_stopped, current_entry (0 for None) with its duration,
\* and progress
NoPlayer == [is_stopped |-> TRUE, current_entry |-> 0, duration |-> 0, progress |-> 0]
Players == {NoPlayer,
            [is_stopped |-> FALSE, current_entry |-> 0, duration |-> 0, progress |-> 0],
            [is_stopped |-> TRUE, current_entry |-> 1, duration |-> 5, progress |-> 2],
            [is_stopped |-> FALSE, current_entry |-> 1, duration |-> 5, progress |-> 2],
            [is_stopped |-> FALSE, current_entry |-> 1, duration |-> 3, progress |-> 0]}

\* sum([e.duration for e in islice(q, n)])
RECURSIVE SumDurations(_, _)
SumDurations(q, n) ==
    IF n <= 0 \/ q = <<>> THEN 0
    ELSE attrs[Head(q)].duration + SumDurations(Tail(q), n - 1)

\* islice(self.entries, position): the entry at the position is counted too
EstimateThroughPosition(q, position, player) ==
    SumDurations(q, position)
    + (IF ~player.is_stopped /\ player.current_entry # 0
       THEN player.duration - player.progress ELSE 0)

\* Playlist.estimate_time_until, in seconds (lines 224-229)
EstimateTimeUntil(q, position, player) ==
    SumDurations(q, position - 1)
    + (IF ~player.is_stopped /\ player.current_entry # 0
       THEN player.duration - player.progress ELSE 0)

\* estimate_time_until(position, player) is called; it has no await
Estimate(position, player) ==
    /\ estimate' = [position |-> position, player |-> player,
                    result |-> EstimateTimeUntil(entries, position, player)]
    /\ UNCHANGED <<entries, url, expected_filename, filename, is_downloading,
                   waiting_futures, futures, tasks, dir, folder, calls, pops, emitted,
                   reordered, hist, attrs, imports, snapshot, headVia>>

\* ------------------------------------------------------ from_json, to_json
\* the data of a snapshot: json.loads and json.dumps keep these values as they
\* are; to_json writes downloaded true only for an entry with a file name
NoJson == [version |-> 0, url |-> "", title |-> "", duration |-> 0, downloaded |-> FALSE,
          filename |-> NoFile, meta |-> NoMeta]
Channel == [type |-> "Channel", id |-> "c", name |-> "music"]
Snapshots ==
    UNION {{x \in {[version |-> 1, url |-> u, title |-> "song", duration |-> d,
                    downloaded |-> b, filename |-> f, meta |-> [channel |-> ch]] :
                      d \in {0, Duration(u)}, b \in BOOLEAN,
                      f \in {NoFile, PrepareFilename(u),
                             HashedName(PrepareFilename(u), Md5Sum(Content(u)))},
                      ch \in {NoObject, Channel}} :
               /\ x.downloaded => x.filename # NoFile
               /\ Len(x.filename.parts) > 2 => InfoExtractor(u) = "generic"} :
           u \in QueueUrls}

\* no snapshot read yet
NoSnapshot == [in |-> NoJson, entry |-> 0, out |-> NoJson, err |-> ""]

\* lines 265-267: bot.get_channel finds the channel, or the name is kept as a str
MetaFromJson(data, found) ==
    IF data.meta.channel = NoObject THEN NoMeta
    ELSE IF found THEN [channel |-> data.meta.channel]
    ELSE [channel |-> [type |-> "str", id |-> "", name |-> data.meta.channel.name]]

\* PlaylistEntry.from_json (lines 256-273): the fifth argument of the
\* constructor is expected_filename
FromJson(x, found) ==
    /\ \E e \in EntryIds : ~Constructed(e)
    /\ LET e == NewEntry IN
         /\ url' = [url EXCEPT ![e] = x.url]
         /\ attrs' = [attrs EXCEPT ![e] = [title |-> x.title, duration |-> x.duration,
                                           meta |-> MetaFromJson(x, found)]]
         /\ expected_filename' = [expected_filename EXCEPT ![e] =
                                    IF x.downloaded THEN x.filename ELSE NoFile]
         /\ filename' = [filename EXCEPT ![e] = NoFile]
         /\ is_downloading' = [is_downloading EXCEPT ![e] = FALSE]
         /\ waiting_futures' = [waiting_futures EXCEPT ![e] = <<>>]
         /\ snapshot' = [NoSnapshot EXCEPT !.in = x, !.entry = e]
    /\ UNCHANGED <<entries, futures, tasks, dir, folder, calls, pops, emitted, reordered,
                   hist, imports, estimate, headVia>>

\* PlaylistEntry.to_json of the entry from_json made (lines 275-292); .id of a
\* str raises AttributeError
ToJson ==
    /\ snapshot.entry # 0
    /\ snapshot.out = NoJson /\ snapshot.err = ""
    /\ LET e == snapshot.entry IN
         IF attrs[e].meta.channel.type = "str"
         THEN snapshot' = [snapshot EXCEPT !.err = "AttributeError"]
         ELSE snapshot' = [snapshot EXCEPT !.out =
                 [version |-> 1, url |-> url[e], title |-> attrs[e].title,
                  duration |-> attrs[e].duration, downloaded |-> IsDownloaded(e),
                  filename |-> filename[e], meta |-> attrs[e].meta]]
    /\ UNCHANGED <<entries, url, expected_filename, filename, is_downloading,
                   waiting_futures, futures, tasks, dir, folder, calls, pops, emitted,
                   reordered, hist, attrs, imports, estimate, headVia>>

\* no import and no estimate_time_until call yet
NoImports == [i \in ImportIds |-> NoImport]
NoEstimate == [position |-> 0, player |-> NoPlayer, result |-> 0]

\* ----------------------------------------------------------- specification
\* the download folder as the program finds it at start
InitDirs ==
    {<<>>,
     <<[name |-> PrepareFilename("yt"), content |-> "cy"]>>,
     <<[name |-> HashedName(PrepareFilename("ga"), "ha"), content |-> "ca"]>>}

Init ==
    /\ entries = <<>>
    /\ url = [e \in EntryIds |-> ""]
    /\ expected_filename = [e \in EntryIds |-> NoFile]
    /\ filename = [e \in EntryIds |-> NoFile]
    /\ is_downloading = [e \in EntryIds |-> FALSE]
    /\ waiting_futures = [e \in EntryIds |-> <<>>]
    /\ futures = [f \in FutureIds |-> NoFuture]
    /\ tasks = [t \in TaskIds |-> NoTask]
    /\ dir \in InitDirs
    /\ folder \in {Len(dir) > 0, TRUE}
    /\ calls = [c \in CallIds |-> NoCall]
    /\ pops = <<>>
    /\ emitted = 0
    /\ reordered = FALSE
    /\ attrs = [e \in EntryIds |-> NoAttrs]
    /\ imports = NoImports
    /\ estimate = NoEstimate
    /\ snapshot = NoSnapshot
    /\ headVia = ""
    /\ hist = [e \in EntryIds |-> NoHist]

Next ==
    \/ \E u \in QueueUrls : AddEntryCall(u)
    \/ \E c \in CallIds : AddEntryInfo(c)
    \/ \E c \in CallIds : AddEntryChecked(c)
    \/ \E c \in CallIds : AddEntryHeader(c)
    \/ \E c \in CallIds : AddEntryProbed(c)
    \/ \E pre \in BOOLEAN : GetNextEntry(pre)
    \/ Shuffle
    \/ Clear
    \/ \E i \in 1..Len(pops) : CancelFuture(pops[i].fut)
    \/ \E t \in TaskIds : DownloadStart(t)
    \/ \E t \in TaskIds : DownloadHeader(t)
    \/ \E t \in TaskIds : DownloadProbed(t)
    \/ \E t \in TaskIds : ExtractInfoDone(t)
    \/ \E t \in TaskIds : ReallyDownloadResume(t)

Spec == Init /\ [][Next]_vars

\* The entry alone: PlaylistEntry objects constructed by their callers
\* (line 236), and callers that ask them for readiness directly
InitEntry ==
    /\ entries = <<>>
    /\ url \in {u \in [EntryIds -> Urls \cup {""}] : \A e \in EntryIds : u[e] = "" <=> e > SoloEntries}
    /\ expected_filename = [e \in EntryIds |-> IF url[e] = "" THEN NoFile ELSE PrepareFilename(url[e])]
    /\ filename = [e \in EntryIds |-> NoFile]
    /\ is_downloading = [e \in EntryIds |-> FALSE]
    /\ waiting_futures = [e \in EntryIds |-> <<>>]
    /\ futures = [f \in FutureIds |-> NoFuture]
    /\ tasks = [t \in TaskIds |-> NoTask]
    /\ dir \in InitDirs
    /\ folder \in {Len(dir) > 0, TRUE}
    /\ calls = [c \in CallIds |-> NoCall]
    /\ pops = <<>>
    /\ emitted = 0
    /\ reordered = FALSE
    /\ attrs = [e \in EntryIds |-> IF url[e] = "" THEN NoAttrs ELSE InfoAttrs(url[e])]
    /\ imports = NoImports
    /\ estimate = NoEstimate
    /\ snapshot = NoSnapshot
    /\ headVia = ""
    /\ hist = [e \in EntryIds |-> NoHist]

NextEntry ==
    \/ \E e \in EntryIds : RequestReady(e)
    \/ \E f \in FutureIds : CancelFuture(f)
    \/ \E t \in TaskIds : DownloadStart(t)
    \/ \E t \in TaskIds : DownloadHeader(t)
    \/ \E t \in TaskIds : DownloadProbed(t)
    \/ \E t \in TaskIds : ExtractInfoDone(t)
    \/ \E t \in TaskIds : ReallyDownloadResume(t)

SpecEntry == InitEntry /\ [][NextEntry]_vars

\* The queue with its imports; the downloads that _add_entry and get_next_entry
\* schedule stay scheduled
NextImport ==
    \/ \E u \in QueueUrls : AddEntryCall(u)
    \/ \E c \in CallIds : AddEntryInfo(c)
    \/ \E c \in CallIds : AddEntryChecked(c)
    \/ \E c \in CallIds : AddEntryHeader(c)
    \/ \E c \in CallIds : AddEntryProbed(c)
    \/ \E pre \in BOOLEAN : GetNextEntry(pre)
    \/ Shuffle
    \/ Clear
    \/ \E kind \in {"from", "stream"} : ImportCall(kind)
    \/ \E i \in ImportIds : ImportInfo(i)
    \/ \E i \in ImportIds : ImportFromResume(i)
    \/ \E i \in ImportIds : StreamResume(i)

\* nothing is downloaded here, so the download folder is left out
InitImport == Init /\ dir = <<>> /\ folder

SpecImport == InitImport /\ [][NextImport]_vars

\* The queue and the callers of estimate_time_until
NextEstimate ==
    \/ \E u \in QueueUrls : AddEntryCall(u)
    \/ \E c \in CallIds : AddEntryInfo(c)
    \/ \E c \in CallIds : AddEntryChecked(c)
    \/ \E c \in CallIds : AddEntryHeader(c)
    \/ \E c \in CallIds : AddEntryProbed(c)
    \/ \E pre \in BOOLEAN : GetNextEntry(pre)
    \/ \E position \in 1..(MaxEntries + 1), player \in Players : Estimate(position, player)

SpecEstimate == InitImport /\ [][NextEstimate]_vars

\* Entries restored from snapshots and written back
NextJson ==
    \/ \E x \in Snapshots, found \in BOOLEAN : FromJson(x, found)
    \/ ToJson

SpecJson == InitImport /\ [][NextJson]_vars

\* the same, with the fairness of the event loop: a task that can take its
\* turn gets it, and every resolver, probe and executor call comes back
LiveEntry ==
    /\ SpecEntry
    /\ \A t \in TaskIds :
         /\ WF_vars(DownloadStart(t))
         /\ WF_vars(DownloadHeader(t))
         /\ WF_vars(DownloadProbed(t))
         /\ WF_vars(ExtractInfoDone(t))
         /\ WF_vars(ReallyDownloadResume(t))

\* The download folder as earlier runs may have left it: hashed files of the
\* generic name (one of them empty), and files of the named extractor under
\* the expected name and under another extension
CacheDirs ==
    {<<>>,
     <<[name |-> HashedName(PrepareFilename("ga"), "ha"), content |-> "ca"]>>,
     <<[name |-> HashedName(PrepareFilename("ga"), "ha"), content |-> "ca"],
       [name |-> HashedName(PrepareFilename("gb"), "hb"), content |-> "cb"]>>,
     <<[name |-> HashedName(PrepareFilename("ga"), Md5Sum("")), content |-> ""]>>,
     <<[name |-> PrepareFilename("yt"), content |-> "cy"]>>,
     <<[name |-> OtherExtension(PrepareFilename("yt")), content |-> "cy"]>>,
     <<[name |-> OtherExtension(PrepareFilename("yt")), content |-> "cy"],
       [name |-> PrepareFilename("yt"), content |-> "cy"]>>}

\* one entry and its callers over such a folder
InitCache ==
    /\ entries = <<>>
    /\ url \in {u \in [EntryIds -> Urls \cup {""}] : \A e \in EntryIds : u[e] = "" <=> e > SoloEntries}
    /\ expected_filename = [e \in EntryIds |-> IF url[e] = "" THEN NoFile ELSE PrepareFilename(url[e])]
    /\ filename = [e \in EntryIds |-> NoFile]
    /\ is_downloading = [e \in EntryIds |-> FALSE]
    /\ waiting_futures = [e \in EntryIds |-> <<>>]
    /\ futures = [f \in FutureIds |-> NoFuture]
    /\ tasks = [t \in TaskIds |-> NoTask]
    /\ dir \in CacheDirs
    /\ folder = TRUE
    /\ calls = [c \in CallIds |-> NoCall]
    /\ pops = <<>>
    /\ emitted = 0
    /\ reordered = FALSE
    /\ attrs = [e \in EntryIds |-> IF url[e] = "" THEN NoAttrs ELSE InfoAttrs(url[e])]
    /\ imports = NoImports
    /\ estimate = NoEstimate
    /\ snapshot = NoSnapshot
    /\ headVia = ""
    /\ hist = [e \in EntryIds |-> NoHist]

SpecCache == InitCache /\ [][NextEntry]_vars

\* some caller asks one of the entries that share a file name for its readiness
RequestShared(e) ==
    /\ Constructed(e)
    /\ Cardinality(FutureIds \ Unused(futures)) < SharedRequests
    /\ CanGetReady(Heap, e)
    /\ LET h == GetReadyFuture(Heap, e) IN
         /\ futures' = h.futures
         /\ tasks' = h.tasks
         /\ waiting_futures' = h.waiting
    /\ UNCHANGED <<entries, url, expected_filename, filename, is_downloading, dir,
                   folder, calls, pops, emitted, reordered, hist, attrs, imports,
                   estimate, snapshot, headVia>>

\* Every entry is constructed, from generic urls of one file name; the folder
\* is empty or holds the hashed file of the first url
InitShared ==
    /\ entries = <<>>
    /\ url \in {u \in [EntryIds -> {"ga", "gb"}] : u[1] = "ga"}
    /\ expected_filename = [e \in EntryIds |-> PrepareFilename(url[e])]
    /\ filename = [e \in EntryIds |-> NoFile]
    /\ is_downloading = [e \in EntryIds |-> FALSE]
    /\ waiting_futures = [e \in EntryIds |-> <<>>]
    /\ futures = [f \in FutureIds |-> NoFuture]
    /\ tasks = [t \in TaskIds |-> NoTask]
    /\ dir \in {<<>>, <<[name |-> HashedName(PrepareFilename("ga"), "ha"), content |-> "ca"]>>}
    /\ folder = TRUE
    /\ calls = [c \in CallIds |-> NoCall]
    /\ pops = <<>>
    /\ emitted = 0
    /\ reordered = FALSE
    /\ attrs = [e \in EntryIds |-> InfoAttrs(url[e])]
    /\ imports = NoImports
    /\ estimate = NoEstimate
    /\ snapshot = NoSnapshot
    /\ headVia = ""
    /\ hist = [e \in EntryIds |-> NoHist]

NextShared ==
    \/ \E e \in EntryIds : RequestShared(e)
    \/ \E t \in TaskIds : DownloadStart(t)
    \/ \E t \in TaskIds : DownloadHeader(t)
    \/ \E t \in TaskIds : DownloadProbed(t)
    \/ \E t \in TaskIds : ExtractInfoDone(t)
    \/ \E t \in TaskIds : ReallyDownloadResume(t)

SpecShared == InitShared /\ [][NextShared]_vars

\* Entries restored from snapshots, asked for and downloaded
NextRestore ==
    \/ \E x \in Snapshots, found \in BOOLEAN : FromJson(x, found)
    \/ \E e \in EntryIds : RequestReady(e)
    \/ \E t \in TaskIds : DownloadStart(t)
    \/ \E t \in TaskIds : DownloadHeader(t)
    \/ \E t \in TaskIds : DownloadProbed(t)
    \/ \E t \in TaskIds : ExtractInfoDone(t)
    \/ \E t \in TaskIds : ReallyDownloadResume(t)

SpecRestore == Init /\ [][NextRestore]_vars

\* ================================================================== claims
IsDone(f) == futures[f].state \in {"result", "exception"}
Scheduled(t) == tasks[t].pc # "unused"
\* the requests t1 and t2 were made on the same entry before the same download settled
SameDownload(t1, t2) ==
    /\ Scheduled(t1) /\ Scheduled(t2)
    /\ tasks[t1].entry = tasks[t2].entry
    /\ tasks[t1].epoch = tasks[t2].epoch

\* C1: two readiness requests made on the same not-yet-downloaded entry before
\* its download settles lead to one download run that passes the in-progress
\* guard and does cache or resolver work, and once that download has settled both waiters hold the same outcome.
C1_OneRunForTwoCallers ==
    \A t1, t2 \in TaskIds :
        (t1 # t2 /\ SameDownload(t1, t2)) =>
            /\ ~(Passed(t1) /\ tasks[t1].worked /\ Passed(t2) /\ tasks[t2].worked)
            /\ (hist[tasks[t1].entry].settled > tasks[t1].epoch
                  /\ futures[tasks[t1].fut].state # "cancelled"
                  /\ futures[tasks[t2].fut].state # "cancelled")
               => /\ IsDone(tasks[t1].fut) /\ IsDone(tasks[t2].fut)
                  /\ futures[tasks[t1].fut] = futures[tasks[t2].fut]

\* C2: the task scheduled by a request made while a download of the entry was
\* in flight never becomes a download run.
C2_InFlightRequestAddsNoRun ==
    \A t \in TaskIds : tasks[t].stale => ~Passed(t)

\* C3: once is_downloaded holds of an entry it holds in every later state.
C3_ReadinessMonotonic ==
    [][\A e \in EntryIds : IsDownloaded(e) => IsDownloaded(e)']_vars

\* a run of entry e ends in this step
Settles(e) == hist'[e].settled = hist[e].settled + 1
Waiters(e) == {waiting_futures[e][i] : i \in 1..Len(waiting_futures[e])}
PendingWaiters(e) == {f \in Waiters(e) : futures[f].state = "pending"}

\* C4: when a run fails, every waiter registered then gets that one error and
\* the entry is left idle with no resolved file name (not downloaded).
C4_FailureLeavesEntryIdle ==
    [][\A e \in EntryIds :
          (Settles(e) /\ hist'[e].outcome = "failed") =>
              /\ \A f \in PendingWaiters(e) : futures'[f].state = "exception"
              /\ \A f, g \in PendingWaiters(e) : futures'[f].err = futures'[g].err
              /\ ~is_downloading'[e]
              /\ filename'[e] = NoFile
              /\ ~IsDownloaded(e)']_vars

\* C5: a resolved waiter never changes again; a pending waiter is resolved only
\* by the end of a run of its entry; and that end resolves all the entry's
\* pending waiters in the one step, all with the entry or all with one error,
\* and leaves none registered.
C5_WaitersResolvedOnceTogether ==
    [][/\ \A f \in FutureIds : IsDone(f) => futures'[f] = futures[f]
       /\ \A f \in FutureIds :
             (futures[f].state = "pending" /\ IsDone(f)') =>
                 /\ Settles(futures[f].owner)
                 /\ f \in Waiters(futures[f].owner)
       /\ \A e \in EntryIds :
             Settles(e) =>
                 /\ \A f \in PendingWaiters(e) :
                       /\ IsDone(f)'
                       /\ futures'[f].state = "result" <=> futures'[f].res = e
                       /\ futures'[f].state = "result" <=> hist'[e].outcome = "ok"
                 /\ \A f, g \in PendingWaiters(e) : futures'[f] = futures'[g]
                 /\ waiting_futures'[e] = <<>>]_vars

\* two waiters of one download, both resolved with the entry
C5_Witness ==
    \E t1, t2 \in TaskIds :
        /\ t1 # t2 /\ SameDownload(t1, t2)
        /\ futures[tasks[t1].fut].state = "result"
        /\ futures[tasks[t2].fut].state = "result"

\* C6: with the loop's fairness, a waiter that is pending is eventually resolved
\* or cancelled.
C6_EveryWaiterResolved ==
    \A f \in FutureIds : (futures[f].state = "pending") ~> (futures[f].state # "pending")

\* a waiter whose own task returned at the guard, resolved by the run in flight
C6_Witness ==
    \E t \in TaskIds : tasks[t].pc = "returned" /\ IsDone(tasks[t].fut)

\* C7: a get_ready_future call on a downloaded entry returns a future already
\* resolved with the entry, registers no waiter and schedules no task.
C7_ReadyEntryAnswersAtOnce ==
    [][\A f \in FutureIds, e \in EntryIds :
          (futures[f].state = "unused" /\ futures'[f].owner = e /\ IsDownloaded(e)) =>
              /\ futures'[f].state = "result"
              /\ futures'[f].res = e
              /\ waiting_futures'[e] = waiting_futures[e]
              /\ \A t \in TaskIds : tasks'[t].entry = e => tasks'[t] = tasks[t]]_vars

\* a future that was returned resolved: no task was scheduled with it
C7_Witness ==
    \E f \in FutureIds :
        /\ futures[f].state = "result"
        /\ \A t \in TaskIds : tasks[t].fut # f

\* C8: cancelling a pending waiter changes nothing of the download (tasks,
\* flag, file name, waiter list, folder); when the run ends, cancelled waiters
\* stay cancelled and every other pending waiter gets the run's outcome.
C8_CancelLeavesDownloadAlone ==
    [][/\ (\E f \in FutureIds : futures[f].state = "pending" /\ futures'[f].state = "cancelled")
            => UNCHANGED <<tasks, is_downloading, filename, waiting_futures, dir, hist>>
       /\ \A e \in EntryIds :
             Settles(e) =>
                 \A f \in Waiters(e) :
                     IF futures[f].state = "cancelled"
                     THEN futures'[f] = futures[f]
                     ELSE futures[f].state = "pending" =>
                             futures'[f].state =
                                 (IF hist'[e].outcome = "ok" THEN "result" ELSE "exception")]_vars

\* a run has ended with a cancelled waiter registered before a resolved one
C8_Witness ==
    \E t1, t2 \in TaskIds :
        /\ t1 < t2 /\ SameDownload(t1, t2)
        /\ futures[tasks[t1].fut].state = "cancelled"
        /\ IsDone(tasks[t2].fut)

ConstructedIds == {e \in EntryIds : Constructed(e)}

\* C9: without shuffle or clear, entries are queued in the order add_entry
\* accepted them (the order of their ids), get_next_entry removes them in that
\* order, what is left is the rest in that order with peek() its first, and a
\* call whose download succeeds returns the entry it removed.
C9_Fifo ==
    ~reordered =>
        /\ Len(pops) + Len(entries) = Cardinality(ConstructedIds)
        /\ \A i \in 1..Len(pops) :
              /\ pops[i].entry = i
              /\ futures[pops[i].fut].owner = i
              /\ futures[pops[i].fut].state = "result" => futures[pops[i].fut].res = i
        /\ \A j \in 1..Len(entries) : entries[j] = Len(pops) + j
        /\ Len(entries) > 0 => Peek(entries) = Len(pops) + 1

\* two entries added, both removed and returned in order, the queue empty
C9_Witness ==
    /\ ~reordered
    /\ Len(pops) = 2
    /\ entries = <<>>
    /\ \A i \in 1..2 : futures[pops[i].fut].state = "result"

Returned == {c \in CallIds : calls[c].pc = "returned"}

NewFutures == {f \in FutureIds : futures[f].state = "unused" /\ futures'[f].state # "unused"}

\* a step of get_next_entry that took an entry off the queue
Pops == Len(pops') = Len(pops) + 1
LastPop == pops'[Len(pops')]

\* the entry has been asked for at least once
Requested(e) == \E f \in FutureIds : futures[f].state # "unused" /\ futures[f].owner = e

\* C11: when add_entry returns, no download of the new entry has been started or
\* scheduled by that call.
C11_AddStartsNoDownload ==
    \A c \in Returned : ~hist[calls[c].entry].trig

\* C12: get_next_entry with predownload_next true and a new head asks for the new
\* head's readiness before it asks for the popped entry's; with the flag false or
\* no new head it asks for the popped entry's readiness and nothing else.
C12_PrefetchFollowsFlag ==
    [][Pops =>
          LET p == LastPop
              next == Peek(entries')
          IN  /\ futures'[p.fut].owner = p.entry
              /\ p.fut \in NewFutures
              /\ IF p.pre /\ next # 0
                 THEN \E f \in NewFutures :
                         /\ NewFutures = {f, p.fut}
                         /\ f < p.fut
                         /\ futures'[f].owner = next
                 ELSE NewFutures = {p.fut}]_vars

\* a pop with the flag set and a second entry behind the head
C12_Witness ==
    /\ ~reordered
    /\ Len(pops) >= 1
    /\ pops[1].pre
    /\ pops[1].fut > 1
    /\ futures[pops[1].fut - 1].owner # pops[1].entry
    /\ futures[pops[1].fut - 1].state # "unused"

\* C13 as stated: whenever the queue is not empty its head has been asked for.
C13_HeadAlwaysTriggered ==
    Len(entries) > 0 => Requested(entries[1])

\* C13: an entry that became the head by being appended to an empty queue, or by a
\* get_next_entry with predownload_next true, has been asked for.
C13_HeadTriggeredOnAppendOrPrefetch ==
    (Len(entries) > 0 /\ headVia \in {"append", "prefetch"}) => Requested(entries[1])

\* the head got there through a prefetching pop
C13_Witness ==
    Len(entries) > 0 /\ headVia = "prefetch" /\ Requested(entries[1])

Raises(c) == calls[c].pc # "raised" /\ calls'[c].pc = "raised"

\* C15: when add_entry turns a url away (extract_info raises, answers None or
\* answers a playlist, or the content type is not allowed) it raises
\* ExtractionError, or WrongEntryTypeError carrying webpage_url-or-url for a
\* playlist, and the queue, the events and the downloads are as they were.
C15_RejectionLeavesQueueAlone ==
    [][\A c \in CallIds :
          /\ Raises(c) =>
                /\ entries' = entries
                /\ emitted' = emitted
                /\ futures' = futures
                /\ tasks' = tasks
                /\ waiting_futures' = waiting_futures
                /\ is_downloading' = is_downloading
                /\ calls[c].pc \in {"got_info", "got_header"}
                /\ calls[c].pc = "got_header" => calls'[c].err = "ExtractionError"
                /\ calls[c].pc = "got_info" =>
                      LET info == calls[c].info IN
                      IF info.type = "playlist"
                      THEN /\ calls'[c].err = "WrongEntryTypeError"
                           /\ calls'[c].alt = (IF info.webpage_url = "" THEN info.url
                                               ELSE info.webpage_url)
                      ELSE /\ info.type \in {"raise", "none"}
                           /\ calls'[c].err = "ExtractionError"
          /\ (calls[c].pc = "got_info" /\ calls[c].info.type # "video"
                 /\ calls'[c] # calls[c]) => Raises(c)]_vars

\* a playlist url was turned away with its webpage_url while an entry is queued
C15_Witness ==
    \E c \in CallIds :
        /\ calls[c].pc = "raised"
        /\ calls[c].err = "WrongEntryTypeError"
        /\ calls[c].alt = "pw"
        /\ Len(entries) > 0

\* C16: for a generic or Dropbox url add_entry raises exactly when the probed
\* content type is application/* or image/* without /ogg; any other type, no
\* type and a failed probe are accepted and queued; for any other extractor there
\* is no probe and the entry is queued.
C16_ContentTypeGate ==
    [][\A c \in CallIds :
          /\ (calls[c].pc = "got_header" /\ calls'[c] # calls[c]) =>
                LET a == calls[c].ct IN
                /\ Raises(c) <=> (a.major \in {"application", "image"} /\ a.sub # "ogg")
                /\ ~Raises(c) => /\ calls'[c].pc = "returned"
                                 /\ entries' = Append(entries, calls'[c].entry)
          /\ (calls[c].pc = "got_info" /\ calls[c].info.type = "video"
                 /\ calls'[c] # calls[c]) =>
                IF InfoExtractor(calls[c].url) \in {"generic", "Dropbox"}
                THEN calls'[c].pc = "get_header"
                ELSE /\ calls'[c].pc = "returned"
                     /\ entries' = Append(entries, calls'[c].entry)
          /\ calls'[c].pc \in {"get_header", "got_header"} =>
                InfoExtractor(calls'[c].url) \in {"generic", "Dropbox"}]_vars

\* one generic url turned away for its content type, one accepted after a probe
C16_Witness ==
    \E c, d \in CallIds :
        /\ calls[c].pc = "raised"
        /\ calls[c].msg = "Invalid content type"
        /\ calls[d].pc = "returned"
        /\ InfoExtractor(url[calls[d].entry]) = "generic"

\* import i has its collection and has not ended
Resolved(i) ==
    \/ imports[i].pc = "got_info" /\ imports[i].answer = "ok"
    \/ imports[i].pc = "add_entry"

\* C17: once safe_extract_info has answered with a collection, import_from and
\* async_process_youtube_playlist never raise: import_from appends the entries of
\* its good items, in the order of the items, and returns exactly those; the
\* streaming import keeps exactly the entry each successful add_entry appended,
\* and an item that is empty or whose add_entry raises leaves the queue as it was.
C17_BadItemsAreSkipped ==
    [][\A i \in ImportIds :
          /\ Resolved(i) => imports'[i].pc # "raised"
          /\ (Resolved(i) /\ imports[i].kind = "from" /\ imports'[i] # imports[i]) =>
                LET field == IF imports[i].extractor = "generic" THEN "url"
                             ELSE "webpage_url"
                    kept == SelectSeq(imports[i].items,
                                      LAMBDA d : d # NoItem /\ d[field] # "")
                    good == imports'[i].good
                IN  /\ imports'[i].pc = "returned"
                    /\ entries' = entries \o good
                    /\ Len(good) = Len(kept)
                    /\ \A j \in 1..Len(good) : url'[good[j]] = kept[j][field]
                    /\ imports'[i].bad = Len(imports[i].items) - Len(kept)
          /\ (imports[i].pc = "add_entry" /\ imports'[i] # imports[i]) =>
                LET good == imports[i].good
                    d == imports[i].items[imports[i].k]
                IN  /\ imports'[i].pc \in {"add_entry", "returned"}
                    /\ \/ /\ entries' = entries
                          /\ imports'[i].good = good
                          /\ imports'[i].bad > imports[i].bad
                       \/ /\ Len(imports'[i].good) = Len(good) + 1
                          /\ SubSeq(imports'[i].good, 1, Len(good)) = good
                          /\ entries' = Append(entries, imports'[i].good[Len(good) + 1])
                          /\ url'[imports'[i].good[Len(good) + 1]] = SongUrl(d.id)
                    /\ imports'[i].pc = "add_entry" =>
                          /\ imports'[i].k > imports[i].k
                          /\ \A j \in (imports[i].k + 1)..(imports'[i].k - 1) :
                                imports[i].items[j] = NoItem
          /\ (imports[i].pc \in {"extract_info", "got_info", "add_entry"}
                 /\ imports'[i] = imports[i]) =>
                \A j \in 1..Len(imports[i].good) :
                    InSeq(entries, imports[i].good[j]) /\ ~reordered'
                        => \/ InSeq(entries', imports[i].good[j])
                           \/ Pops]_vars

\* an import has returned some entries and skipped some items
C17_Witness ==
    \E i \in ImportIds :
        /\ imports[i].pc = "returned"
        /\ imports[i].bad > 0
        /\ Len(imports[i].good) > 0
        /\ Len(entries) >= Len(imports[i].good)

\* C18: the position import_from returns is the 1-based place in the queue of the
\* first entry this call queued, whatever add_entry and get_next_entry did while
\* the playlist url was being resolved.
C18_StartPosition ==
    \A i \in ImportIds :
        (imports[i].pc = "returned" /\ imports[i].kind = "from" /\ imports[i].good # <<>>)
            => imports[i].position = imports[i].placed

\* the durations of the entries of q at the places in S
RECURSIVE SumAt(_, _)
SumAt(q, S) ==
    IF S = {} THEN 0
    ELSE LET j == CHOOSE x \in S : TRUE IN attrs[q[j]].duration + SumAt(q, S \ {j})

\* C19: estimate_time_until(position, player) is the sum of the durations of the
\* queued entries before the 1-based position, plus current_entry.duration minus
\* progress exactly when the player is not stopped and has a current entry; it
\* is zero for position 1 with nothing playing; the queue and the entries stay.
C19_EstimateIsSumBefore ==
    [][estimate' # estimate =>
          LET position == estimate'.position
              player == estimate'.player
              playing == ~player.is_stopped /\ player.current_entry # 0
              before == {j \in 1..Len(entries) : j < position}
          IN  /\ estimate'.result = SumAt(entries, before)
                    + (IF playing THEN player.duration - player.progress ELSE 0)
              /\ (position = 1 /\ ~playing) => estimate'.result = 0
              /\ entries' = entries
              /\ attrs' = attrs
              /\ url' = url
              /\ filename' = filename]_vars

\* an estimate for the place behind two queued entries while something plays
C19_Witness ==
    /\ Len(entries) = 2
    /\ estimate.position = 3
    /\ ~estimate.player.is_stopped /\ estimate.player.current_entry # 0
    /\ estimate.result = attrs[entries[1]].duration + attrs[entries[2]].duration
                         + estimate.player.duration - estimate.player.progress

\* C20: to_json(from_json(x)) has the url, title, duration, downloaded, filename
\* and meta of x, for downloaded true and false.
C20_RoundTrip ==
    (snapshot.entry # 0 /\ (snapshot.out # NoJson \/ snapshot.err # "")) =>
        /\ snapshot.err = ""
        /\ snapshot.out.url = snapshot.in.url
        /\ snapshot.out.title = snapshot.in.title
        /\ snapshot.out.duration = snapshot.in.duration
        /\ snapshot.out.downloaded = snapshot.in.downloaded
        /\ snapshot.out.filename = snapshot.in.filename
        /\ snapshot.out.meta = snapshot.in.meta

\* the errors of the resolver and of the file system calls of a download
DownloadErrors == {"extract", "none", "makedirs", "index", "nofile", "md5", "rename", "unlink"}

\* C21: an entry that from_json restored from a snapshot with downloaded false
\* has no file name and is not ready; the download its next readiness request
\* runs gets to the resolver, so that a waiter is failed only by an error of the
\* resolver or of the file system, and is given the entry otherwise.
C21_RestoredEntryDownloads ==
    \A e \in EntryIds :
        (snapshot.entry = e /\ ~snapshot.in.downloaded) =>
            /\ hist[e].settled = 0 => (filename[e] = NoFile /\ ~IsDownloaded(e))
            /\ \A f \in FutureIds :
                  (futures[f].owner = e /\ futures[f].state = "exception")
                      => futures[f].err \in DownloadErrors

\* task t is a download run past the guard of line 295 and before the finally
\* clause of lines 371-372
Active(t) == tasks[t].pc \in {"get_header", "got_header", "extract_info", "extracted"}

\* C22: in every reachable state at most one _download task of an entry is past
\* the in-progress guard and before its clearing of the flag.
C22_OneActiveRun ==
    \A t1, t2 \in TaskIds :
        (Active(t1) /\ Active(t2) /\ tasks[t1].entry = tasks[t2].entry) => t1 = t2

\* one run in flight and another task of the entry turned away by the guard
C22_Witness ==
    \E t1, t2 \in TaskIds :
        /\ Active(t1)
        /\ tasks[t2].pc = "returned"
        /\ tasks[t1].entry = tasks[t2].entry

\* C23: a run has the flag set when it first suspends and whenever the download
\* folder changes under it; the flag is cleared only by the end of the run, in
\* the step that resolves every waiter registered so far, whether the run
\* succeeded or failed; and no entry has the flag set without a run in flight.
C23_FlagCoversTheRun ==
    [][/\ \A t \in TaskIds :
             /\ (tasks[t].pc = "scheduled" /\ Active(t)') => is_downloading'[tasks[t].entry]
             /\ Active(t) => is_downloading[tasks[t].entry]
       /\ dir' # dir => \E t \in TaskIds : Active(t) /\ is_downloading[tasks[t].entry]
       /\ \A e \in EntryIds :
             /\ Settles(e) =>
                   /\ ~is_downloading'[e]
                   /\ waiting_futures'[e] = <<>>
                   /\ \A f \in Waiters(e) : futures'[f].state # "pending"
                   /\ \A t \in TaskIds : tasks[t].entry = e => ~Active(t)'
             /\ (is_downloading[e] /\ ~is_downloading'[e]) => Settles(e)
             /\ is_downloading[e] => \E t \in TaskIds : Active(t) /\ tasks[t].entry = e]_vars

\* a run that failed after a suspension: its waiter holds the error, the flag is clear
C23_Witness ==
    \E e \in EntryIds, f \in FutureIds :
        /\ hist[e].outcome = "failed"
        /\ futures[f].owner = e
        /\ futures[f].state = "exception"
        /\ futures[f].err \in {"extract", "none", "md5", "rename"}
        /\ ~is_downloading[e]

\* task t resumes from the CONTENT-LENGTH probe in this step
ProbeResumes(t) == tasks[t].pc = "got_header" /\ tasks'[t].pc # "got_header"

\* C24: in the generic cache path, when the folder holds a file whose name without
\* its hash suffix is the expected name and whose size is the probed content
\* length, the run sets the file name to such a file, starts no real download
\* and gives the waiters the entry.
C24_CacheHitReuses ==
    [][\A t \in TaskIds :
          ProbeResumes(t) =>
              LET e == tasks[t].entry
                  noex == RSplitDot(expected_filename[e])
                  hits == {i \in 1..Len(dir) :
                              /\ RSplitDash(dir[i].name) = noex
                              /\ GetSize(dir[i].content) = tasks[t].probe}
              IN  (tasks[t].probe # NoLength /\ hits # {}) =>
                      /\ tasks'[t].pc = "done"
                      /\ hist'[e].outcome = "ok"
                      /\ \E i \in hits : filename'[e] = dir[i].name
                      /\ \A f \in PendingWaiters(e) : futures'[f].res = e]_vars

\* C25: in the generic cache path, when the probe fails or answers a length that
\* is not the size of the local file, the run goes on to a real download with
\* the hash and does not take the local file, whatever the size of that file.
C25_MismatchDownloads ==
    [][\A t \in TaskIds :
          (ProbeResumes(t) /\ tasks[t].idx <= Len(dir)) =>
              LET e == tasks[t].entry
                  lsize == GetSize(dir[tasks[t].idx].content)
              IN  (tasks[t].probe = NoLength \/ tasks[t].probe # lsize) =>
                      /\ tasks'[t].pc = "extract_info"
                      /\ tasks'[t].hash
                      /\ filename'[e] = filename[e]
                      /\ ~Settles(e)]_vars

\* C26: a run for a named extractor takes the file of exactly the expected name
\* when the folder holds it, else a file of the expected base name under another
\* extension, else goes on to a real download without the hash; a file it takes
\* is in the folder and no real download is started for it.
C26_NamedCacheOrder ==
    [][\A t \in TaskIds :
          LET e == tasks[t].entry
              base == expected_filename[e]
              sameBase == {i \in 1..Len(dir) : dir[i].name.parts = base.parts}
          IN  (/\ tasks[t].pc = "scheduled"
               /\ tasks'[t].pc \notin {"scheduled", "returned"}
               /\ ExtractorOf(base) # "generic"
               /\ ~(Settles(e) /\ hist'[e].outcome = "failed")) =>
                  IF \E i \in 1..Len(dir) : dir[i].name = base
                  THEN /\ tasks'[t].pc = "done"
                       /\ filename'[e] = base
                       /\ dir' = dir
                  ELSE IF sameBase # {}
                  THEN /\ tasks'[t].pc = "done"
                       /\ \E i \in sameBase : filename'[e] = dir[i].name
                       /\ dir' = dir
                  ELSE /\ tasks'[t].pc = "extract_info"
                       /\ ~tasks'[t].hash
                       /\ filename'[e] = filename[e]]_vars

\* the expected file was taken although a file of another extension is listed
\* before it
C26_Witness ==
    \E e \in EntryIds :
        /\ url[e] = "yt"
        /\ Len(dir) = 2
        /\ dir[1].name = OtherExtension(expected_filename[e])
        /\ filename[e] = expected_filename[e]
        /\ hist[e].outcome = "ok"

\* the last run of entry e ended well and left it a file name (line 365)
ResolvedOk(e) == hist[e].outcome = "ok" /\ ~is_downloading[e] /\ filename[e] # NoFile

\* entries of the generic extractor whose downloads produce one base name
SameBaseName(e1, e2) ==
    /\ e1 # e2 /\ Constructed(e1) /\ Constructed(e2)
    /\ InfoExtractor(url[e1]) = "generic" /\ InfoExtractor(url[e2]) = "generic"
    /\ expected_filename[e1] = expected_filename[e2]

\* C27: two generic-source downloads that produce the same base name and whose
\* bytes differ end with distinct resolved file names, and a resolved name is
\* the base name with the hash of the bytes before the extension; downloads of
\* the same bytes end with the one existing file.
C27_HashKeepsDownloadsApart ==
    \A e1, e2 \in EntryIds :
        (SameBaseName(e1, e2) /\ ResolvedOk(e1) /\ ResolvedOk(e2)) =>
            /\ Content(url[e1]) # Content(url[e2]) => filename[e1] # filename[e2]
            /\ Content(url[e1]) = Content(url[e2]) => filename[e1] = filename[e2]

\* C28: runs of distinct entries that overlap in the shared download folder do
\* not fail on each other's files (a file that was moved away, a listing that
\* changed), and an entry that ended ready has a resolved name of an existing
\* file that holds the bytes of its url.
C28_OverlappingRunsKeepTheirFiles ==
    \A e \in EntryIds :
        /\ \A f \in FutureIds :
             futures[f].owner = e => futures[f].err \notin {"nofile", "index"}
        /\ ResolvedOk(e) =>
             /\ HasFile(dir, filename[e])
             /\ FileBytes(dir, filename[e]) = Content(url[e])
====
